---- MODULE Spec2Model ----
(***************************************************************************)
(* Vacuum: detection and reclaim of rent locked in Solana token accounts.  *)
(* The model covers the registry (tracked_accounts, protected_accounts,    *)
(* reclaim_history, operators), the ledger as seen through                 *)
(* services/solana.ts, the scanner (core/monitor.ts), the detector         *)
(* (core/detector.ts) and the reclaimer (core/reclaimer.ts).               *)
(* Every await of a ledger call is a step boundary: the ledger may change  *)
(* between two reads of one call.  Timestamps written by the registry      *)
(* (last_checked_at, reclaimed_at) are not modelled.                       *)
(***************************************************************************)
EXTENDS Integers, Sequences, FiniteSets, TLC

(* ------------------------------ bounds -------------------------------- *)
MaxLamports == 2        \* the ledger's rent-exempt minimum ranges over 1..MaxLamports
MaxAmount == 1          \* token balances range over 0..MaxAmount
MaxAgeOver == 1         \* recorded activity is at most MaxAgeOver half-days older than the threshold
MaxHistory == 1         \* an address is created again only while the audit log holds at most MaxHistory entries
MaxBatch == 3           \* longest detection list handed to batchReclaim
MaxSigs == 2            \* longest signature list handed to scanFromSignatures
MaxOperatorId == 3      \* operators are added while the AUTOINCREMENT sequence is below MaxOperatorId
MaxRetries == 3         \* retry is called with maxRetries in 0..MaxRetries

(* ------------------------- program constants -------------------------- *)
MinInactiveDays == 7    \* config.minInactiveDays default
MsPerDay == 1000 * 60 * 60 * 24
DefaultMaxRetries == 3      \* retry: maxRetries = 3
DefaultBaseDelayMs == 1000  \* retry: baseDelayMs = 1000

Addrs == {"a1", "a2"}
OperatorKey == "operator"
OtherKey == "other"
NoKey == "none"
AccountTypes == {"token_account", "ata", "pda", "unknown"}
TokenTypes == {"token_account", "ata"}
NoActivity == -1

VARIABLES
  registry,    \* tracked_accounts: the rows of the table, in insertion order
  whitelist,   \* protected_accounts: set of addresses
  history,     \* reclaim_history: sequence of entries, in insertion order
  chain,       \* the ledger: address -> account state
  rentExempt,  \* the ledger's rent-exempt minimum: the lamports of every account it creates
  cfgDryRun,   \* config.dryRun
  pc,          \* position of the single-threaded program
  chk,         \* the current / last checkAccount call
  rcl,         \* the current / last reclaimTokenAccount call
  bat,         \* the current / last batchReclaim call
  scn,         \* the current / last scanner call (AccountMonitor)
  fnd,         \* the current / last findAllReclaimable call
  operators,   \* the operators table and its AUTOINCREMENT sequence
  rty,         \* the current / last call of the retry helper
  procs,       \* two processes that share the store and the ledger: the position of each
  wlog           \* the last whitelist command, and the one before it

vars ==
  <<registry, whitelist, history, chain, rentExempt, cfgDryRun, pc, chk, rcl, bat, scn, fnd,
    operators, rty, procs, wlog>>

(* ------------------------------ ledger -------------------------------- *)
Absent == [exists |-> FALSE, token |-> FALSE, amount |-> 0, owner |-> NoKey, lamports |-> 0]

TokenAcct(amt, own, lam) ==
  [exists |-> TRUE, token |-> TRUE, amount |-> amt, owner |-> own, lamports |-> lam]

PlainAcct(lam) ==
  [exists |-> TRUE, token |-> FALSE, amount |-> 0, owner |-> NoKey, lamports |-> lam]

\* the accounts the ledger can hold at one address when the rent-exempt minimum is l
Created(l) ==
  {TokenAcct(m, o, l) : m \in 0..MaxAmount, o \in {OperatorKey, OtherKey}} \cup {PlainAcct(l)}

ChainStates ==
  {Absent}
    \cup {TokenAcct(m, o, l) : m \in 0..MaxAmount, o \in {OperatorKey, OtherKey}, l \in 1..MaxLamports}
    \cup {PlainAcct(l) : l \in 1..MaxLamports}

\* conn.getAccountInfo: null when the account does not exist
NoInfo == [found |-> FALSE, lamports |-> 0]

getAccountInfo(c) ==
  IF c.exists THEN [found |-> TRUE, lamports |-> c.lamports] ELSE NoInfo

\* getTokenAccountData: null for TokenAccountNotFoundError and
\* TokenInvalidAccountOwnerError, else owner, amount and lamports
NoTokenData == [found |-> FALSE, owner |-> NoKey, amount |-> 0, lamports |-> 0]

\* mutant: a closed account is still reported, as it was when it was open
getTokenAccountData_Cached(c) ==
  IF c.exists /\ ~c.token THEN NoTokenData
  ELSE [found |-> TRUE, owner |-> IF c.exists THEN c.owner ELSE OperatorKey,
        amount |-> c.amount, lamports |-> c.lamports]

getTokenAccountData(c) ==
  IF c.exists /\ c.token
    THEN [found |-> TRUE, owner |-> c.owner, amount |-> c.amount, lamports |-> c.lamports]
    ELSE NoTokenData

\* detectAccountType: by the program that owns the account; an account of
\* the model that is not a token account is owned by the system program
detectAccountType(c) == IF c.token THEN "token_account" ELSE "unknown"

AddrOrder == <<"a1", "a2">>

\* getParsedTokenAccountsByOwner(operator): the operator's token accounts
\* with their parsed token amount
getOperatorTokenAccounts(ch) ==
  LET owned == SelectSeq(AddrOrder, LAMBDA a : ch[a].exists /\ ch[a].token /\ ch[a].owner = OperatorKey)
  IN [i \in 1..Len(owned) |-> [pubkey |-> owned[i], amount |-> ch[owned[i]].amount]]

(* ----------------------------- registry ------------------------------- *)
\* what a lookup answers when the table has no row for the address
NoRow ==
  [tracked |-> FALSE, pubkey |-> NoKey, accountType |-> "unknown", rentLamports |-> 0,
   status |-> "active", lastActivityAt |-> NoActivity]

Row(a, t, r, s, la) ==
  [tracked |-> TRUE, pubkey |-> a, accountType |-> t, rentLamports |-> r, status |-> s,
   lastActivityAt |-> la]

\* the positions of the rows WHERE pubkey = a
RowsOf(reg, a) == {i \in 1..Len(reg) : reg[i].pubkey = a}

\* SELECT * FROM tracked_accounts WHERE pubkey = ?, first row or null
getTrackedAccount(reg, a) ==
  IF RowsOf(reg, a) = {} THEN NoRow
  ELSE reg[CHOOSE i \in RowsOf(reg, a) : \A j \in RowsOf(reg, a) : i <= j]

\* mutant: a plain INSERT, without the conflict clause and without the
\* UNIQUE constraint
addTrackedAccount_Insert(reg, acc) == Append(reg, acc)

\* mutant: the INSERT fills last_activity_at, with a date at the threshold
addTrackedAccount_Stamped(reg, acc) ==
  IF RowsOf(reg, acc.pubkey) = {}
    THEN Append(reg, [acc EXCEPT !.lastActivityAt = MinInactiveDays * MsPerDay])
    ELSE [i \in 1..Len(reg) |->
            IF reg[i].pubkey = acc.pubkey
              THEN [reg[i] EXCEPT !.accountType = acc.accountType, !.rentLamports = acc.rentLamports]
              ELSE reg[i]]

\* mutant: the conflict clause writes the status column too
addTrackedAccount_SetStatus(reg, acc) ==
  IF RowsOf(reg, acc.pubkey) = {} THEN Append(reg, acc)
  ELSE [i \in 1..Len(reg) |->
          IF reg[i].pubkey = acc.pubkey
            THEN [reg[i] EXCEPT !.accountType = acc.accountType, !.rentLamports = acc.rentLamports,
                                !.status = acc.status]
            ELSE reg[i]]

\* INSERT ... ON CONFLICT(pubkey) DO UPDATE SET account_type, rent_lamports,
\* owner, mint, last_checked_at: status and last_activity_at keep their value
addTrackedAccount(reg, acc) ==
  IF RowsOf(reg, acc.pubkey) = {} THEN Append(reg, acc)
  ELSE [i \in 1..Len(reg) |->
          IF reg[i].pubkey = acc.pubkey
            THEN [reg[i] EXCEPT !.accountType = acc.accountType, !.rentLamports = acc.rentLamports]
            ELSE reg[i]]

\* SELECT * FROM tracked_accounts ORDER BY created_at DESC
getAllTrackedAccounts(reg) == [i \in 1..Len(reg) |-> reg[Len(reg) + 1 - i]]

\* mutant: the whitelist lookup never finds a row
isAccountProtected_Never(wl, a) == FALSE

isAccountProtected(wl, a) == a \in wl

\* mutant: the status update is lost
updateAccountStatus_Lost(reg, a, s) == reg

\* UPDATE tracked_accounts SET status = ? WHERE pubkey = ?
updateAccountStatus(reg, a, s) ==
  [i \in 1..Len(reg) |-> IF reg[i].pubkey = a THEN [reg[i] EXCEPT !.status = s] ELSE reg[i]]

\* mutant: the rent column is not refreshed
updateAccountState_KeepRent(reg, a, s, r) ==
  [i \in 1..Len(reg) |-> IF reg[i].pubkey = a THEN [reg[i] EXCEPT !.status = s] ELSE reg[i]]

\* UPDATE tracked_accounts SET status = ?, rent_lamports = ? WHERE pubkey = ?
updateAccountState(reg, a, s, r) ==
  [i \in 1..Len(reg) |->
     IF reg[i].pubkey = a THEN [reg[i] EXCEPT !.status = s, !.rentLamports = r] ELSE reg[i]]

\* mutant: the table is rewritten to hold the new entry alone
addReclaimHistory_Replace(h, a, amt, sig, why) ==
  <<[account |-> a, amount |-> amt, tx |-> sig, reason |-> why]>>

\* mutant: the entry records no amount
addReclaimHistory_NoAmount(h, a, amt, sig, why) ==
  Append(h, [account |-> a, amount |-> 0, tx |-> sig, reason |-> why])

addReclaimHistory(h, a, amt, sig, why) ==
  Append(h, [account |-> a, amount |-> amt, tx |-> sig, reason |-> why])

\* helpers.ts daysSince: Math.floor(diffMs / (1000 * 60 * 60 * 24)), on the
\* milliseconds elapsed since the recorded date
daysSince(diffMs) == diffMs \div MsPerDay

(* --------------------------- call records ----------------------------- *)
NullDet ==
  [null |-> TRUE, pubkey |-> NoKey, account |-> NoRow, reason |-> "none",
   reclaimableLamports |-> 0, safe |-> FALSE]

Det(a, row, why, lam, sf) ==
  [null |-> FALSE, pubkey |-> a, account |-> row, reason |-> why,
   reclaimableLamports |-> lam, safe |-> sf]

NoChk ==
  [state |-> "none", pubkey |-> NoKey, row |-> NoRow, info |-> NoInfo, reads |-> 0,
   result |-> NullDet, live |-> Absent, before |-> NoRow, wasProtected |-> FALSE]

\* ReclaimResult; error "none" stands for an absent error field
Result(a, ok, amt, sig, msg) ==
  [accountPubkey |-> a, success |-> ok, amountReclaimed |-> amt, txSignature |-> sig, error |-> msg]

NoResult == Result(NoKey, FALSE, 0, "", "none")

Failure(a, msg) == Result(a, FALSE, 0, "", msg)

Success(a, amt, sig, msg) == Result(a, TRUE, amt, sig, msg)

NoRcl ==
  [state |-> "none", det |-> NullDet, dryRunOpt |-> "unset", dryRun |-> FALSE,
   tokenData |-> NoTokenData, tokenData2 |-> NoTokenData, reads |-> 0, submits |-> 0,
   result |-> NoResult, wasProtected |-> FALSE, regBefore |-> <<>>, histBefore |-> <<>>]

NoBat ==
  [state |-> "none", dets |-> <<>>, maxAccounts |-> -1, dryRunOpt |-> "unset",
   toProcess |-> <<>>, i |-> 0, results |-> <<>>, calls |-> <<>>, delays |-> <<>>,
   regBefore |-> <<>>, histBefore |-> <<>>]

\* a scanner call: op is scanOperatorAccounts ("owned"), scanFromSignatures
\* ("sigs") or trackAccount ("track"); prevNew holds the addresses that the
\* scanOperatorAccounts call that returned just before this one registered
\* for the first time, with a token balance above 0
NoScn ==
  [op |-> "none", state |-> "none", pubkey |-> NoKey, listed |-> FALSE, list |-> <<>>,
   i |-> 0, tracked |-> <<>>, existing |-> FALSE, info |-> NoInfo, null |-> FALSE,
   regBefore |-> <<>>, prevNew |-> {}]

\* calls and returned record the checkAccount calls made and what each gave
\* back (NullDet for null); caught counts the exceptions
NoFnd ==
  [state |-> "none", accounts |-> <<>>, i |-> 0, results |-> <<>>, calls |-> <<>>,
   returned |-> <<>>, caught |-> 0]

\* mutant: the first exception ends the loop
CaughtFound_Abort(f) == [f EXCEPT !.caught = @ + 1, !.i = Len(f.accounts)]

\* findAllReclaimable's catch block: the error is logged, the loop goes on
CaughtFound(f) == [f EXCEPT !.caught = @ + 1, !.i = @ + 1]

\* rows: the operators table in insertion order; seq: the last id handed
\* out; op, arg and before describe the last call on the table
NoOperators == [rows |-> <<>>, seq |-> 0, op |-> "none", arg |-> 0, before |-> <<>>]

Signatures == <<"sig1", "sig2", "sig3", "sig4", "sig5", "sig6">>

\* two processes (two invocations of the CLI, or the CLI next to a scheduled
\* run) that work on the same database file and the same ledger
Procs == {"p1", "p2"}

\* op is the call the process is in, step its position between two awaited
\* or separately executed statements; executed tells that the ledger ran
\* the close this process sent
NoProc ==
  [op |-> "none", step |-> "idle", id |-> 0, name |-> "", det |-> NullDet,
   tokenData |-> NoTokenData, tokenData2 |-> NoTokenData, result |-> NoResult,
   executed |-> FALSE]

NoProcs == [p \in Procs |-> NoProc]

\* op is the last whitelist command ("add", "remove"), pubkey its address,
\* before the status of the address's row when the command started;
\* undoes tells that the command is a removeProtectedAccount that came
\* right after the addProtectedAccount of the same address, and original is
\* the status the row had before that addProtectedAccount
NoWl == [op |-> "none", pubkey |-> NoKey, before |-> "none", undoes |-> FALSE, original |-> "none"]

(* --------------------------- environment ------------------------------ *)
\* chk, rcl and bat describe the call in progress or the call that returned
\* last; a ledger event between two calls discards the finished records
Forget ==
  IF pc = "idle"
    THEN chk' = NoChk /\ rcl' = NoRcl /\ bat' = NoBat /\ scn' = NoScn /\ fnd' = NoFnd
    ELSE UNCHANGED <<chk, rcl, bat, scn, fnd>>

\* a token transfer into the account
Deposit(a) ==
  /\ chain[a].exists /\ chain[a].token /\ chain[a].amount < MaxAmount
  /\ chain' = [chain EXCEPT ![a].amount = @ + 1]
  /\ Forget
  /\ UNCHANGED <<registry, whitelist, history, rentExempt, cfgDryRun, operators, rty, procs, wlog, pc>>

\* a token transfer out of the account
Withdraw(a) ==
  /\ chain[a].exists /\ chain[a].token /\ chain[a].amount > 0
  /\ chain' = [chain EXCEPT ![a].amount = @ - 1]
  /\ Forget
  /\ UNCHANGED <<registry, whitelist, history, rentExempt, cfgDryRun, operators, rty, procs, wlog, pc>>

\* the owner closes the account outside this tool
ExternalClose(a) ==
  /\ chain[a].exists /\ chain[a].amount = 0
  /\ chain' = [chain EXCEPT ![a] = Absent]
  /\ Forget
  /\ UNCHANGED <<registry, whitelist, history, rentExempt, cfgDryRun, operators, rty, procs, wlog, pc>>

\* the close authority of the token account moves to another key, or back
SetOwner(a) ==
  /\ chain[a].exists /\ chain[a].token
  /\ chain' = [chain EXCEPT ![a].owner = IF @ = OperatorKey THEN OtherKey ELSE OperatorKey]
  /\ Forget
  /\ UNCHANGED <<registry, whitelist, history, rentExempt, cfgDryRun, operators, rty, procs, wlog, pc>>

\* an account is created again at a closed address
Recreate(a) ==
  /\ ~chain[a].exists /\ Len(history) <= MaxHistory - 1
  /\ \E c \in Created(rentExempt) : chain' = [chain EXCEPT ![a] = c]
  /\ Forget
  /\ UNCHANGED <<registry, whitelist, history, rentExempt, cfgDryRun, operators, rty, procs, wlog, pc>>

(* ----------------------------- whitelist ------------------------------ *)
addProtectedAccount(a) ==
  /\ pc = "idle"
  /\ whitelist' = whitelist \cup {a}
  /\ registry' = updateAccountStatus(registry, a, "protected")
  /\ chk' = NoChk /\ rcl' = NoRcl /\ bat' = NoBat /\ scn' = NoScn /\ fnd' = NoFnd
  /\ UNCHANGED <<history, chain, rentExempt, cfgDryRun, operators, rty, procs, wlog, pc>>

removeProtectedAccount(a) ==
  /\ pc = "idle"
  /\ whitelist' = whitelist \ {a}
  /\ registry' = updateAccountStatus(registry, a, "active")
  /\ chk' = NoChk /\ rcl' = NoRcl /\ bat' = NoBat /\ scn' = NoScn /\ fnd' = NoFnd
  /\ UNCHANGED <<history, chain, rentExempt, cfgDryRun, operators, rty, procs, wlog, pc>>

(* ------------------------------ detector ------------------------------ *)
\* mutant: any token account that is found counts as empty
isZeroBalance_AnyAmount(td) == td.found

\* detector.ts 66: tokenData && tokenData.amount === 0n
isZeroBalance(td) == td.found /\ td.amount = 0

\* mutant: the threshold itself does not count
isInactive_Strict(row) ==
  /\ row.lastActivityAt # NoActivity
  /\ daysSince(row.lastActivityAt) > MinInactiveDays

\* detector.ts 89-92: lastActivityAt is set and inactiveDays >= minInactiveDays
isInactive(row) ==
  /\ row.lastActivityAt # NoActivity
  /\ daysSince(row.lastActivityAt) >= MinInactiveDays

ZeroBalanceResult(a, row, td) ==
  Det(a, [row EXCEPT !.rentLamports = td.lamports], "zero_balance", td.lamports, TRUE)

\* mutant: the closed result carries no amount
ClosedResult_NoRent(a, row) == Det(a, row, "closed", 0, TRUE)

ClosedResult(a, row) == Det(a, row, "closed", row.rentLamports, TRUE)

\* mutant: an inactive account is reported safe
InactiveResult_Safe(a, row, info) == Det(a, row, "inactive", info.lamports, TRUE)

InactiveResult(a, row, info) == Det(a, row, "inactive", info.lamports, FALSE)

\* findAllReclaimable's loop after checkAccount returned d: results.push(d)
\* unless d is null
PushFound(f, d) ==
  [f EXCEPT !.results = IF d.null THEN @ ELSE Append(@, d),
            !.returned = Append(@, d), !.i = @ + 1]

\* checkAccount returns d; the call record keeps the ledger state at the
\* return; inside findAllReclaimable the loop goes on
CheckReturn(f, c, d) ==
  /\ chk' = [c EXCEPT !.state = "returned", !.result = d, !.live = chain[c.pubkey]]
  /\ IF f.state = "running"
       THEN fnd' = PushFound(f, d) /\ pc' = "fnd_loop"
       ELSE fnd' = f /\ pc' = "idle"

\* mutant: the active branch returns null without writing the registry
CheckTail_NoWrite(c, info) ==
  IF isInactive(c.row)
    THEN /\ CheckReturn(fnd, c, InactiveResult(c.pubkey, c.row, info))
         /\ UNCHANGED registry
    ELSE /\ CheckReturn(fnd, c, NullDet)
         /\ UNCHANGED registry

\* detector.ts 88-110: the inactivity gate, else the account is active
CheckTail(c, info) ==
  IF isInactive(c.row)
    THEN /\ CheckReturn(fnd, c, InactiveResult(c.pubkey, c.row, info))
         /\ UNCHANGED registry
    ELSE /\ CheckReturn(fnd, c, NullDet)
         /\ registry' = updateAccountState(registry, c.pubkey, "active", info.lamports)

\* mutant: a row already marked reclaimed is skipped, as findAllReclaimable
\* skips it
CheckGates_SkipReclaimed(f, a) ==
  LET row == getTrackedAccount(registry, a)
      c == [NoChk EXCEPT !.pubkey = a, !.row = row, !.before = row,
                         !.wasProtected = (a \in whitelist)]
  IN IF ~row.tracked \/ isAccountProtected(whitelist, a) \/ row.status = "reclaimed"
       THEN CheckReturn(f, c, NullDet)
       ELSE chk' = [c EXCEPT !.state = "running"] /\ fnd' = f /\ pc' = "chk_info"

\* detector.ts 25-40: the synchronous gates, up to the first ledger read
CheckGates(f, a) ==
  LET row == getTrackedAccount(registry, a)
      c == [NoChk EXCEPT !.pubkey = a, !.row = row, !.before = row,
                         !.wasProtected = (a \in whitelist)]
  IN IF ~row.tracked \/ isAccountProtected(whitelist, a)
       THEN CheckReturn(f, c, NullDet)
       ELSE chk' = [c EXCEPT !.state = "running"] /\ fnd' = f /\ pc' = "chk_info"

checkAccount(a) ==
  /\ pc = "idle"
  /\ CheckGates(NoFnd, a)
  /\ rcl' = NoRcl /\ bat' = NoBat /\ scn' = NoScn
  /\ UNCHANGED <<registry, whitelist, history, chain, rentExempt, cfgDryRun, operators, rty, procs, wlog>>

\* a ledger read of checkAccount fails after its retries: the call throws;
\* findAllReclaimable catches the exception (detector.ts 132-137)
CheckReadError ==
  /\ pc \in {"chk_info", "chk_token"}
  /\ chk' = [chk EXCEPT !.state = "threw"]
  /\ IF fnd.state = "running"
       THEN fnd' = CaughtFound(fnd) /\ pc' = "fnd_loop"
       ELSE fnd' = fnd /\ pc' = "idle"
  /\ UNCHANGED <<registry, whitelist, history, chain, rentExempt, cfgDryRun, operators, rty, procs, wlog, rcl, bat, scn>>

\* detector.ts 40-63: getAccountInfo answers
CheckInfo ==
  /\ pc = "chk_info"
  /\ LET a == chk.pubkey
         info == getAccountInfo(chain[a])
         c == [chk EXCEPT !.info = info, !.reads = @ + 1]
     IN IF ~info.found
          THEN /\ CheckReturn(fnd, c, ClosedResult(a, c.row))
               /\ registry' = updateAccountState(registry, a, "reclaimed", 0)
          ELSE IF c.row.accountType \in TokenTypes
            THEN chk' = c /\ pc' = "chk_token" /\ UNCHANGED <<registry, fnd>>
            ELSE CheckTail(c, info)
  /\ UNCHANGED <<whitelist, history, chain, rentExempt, cfgDryRun, operators, rty, procs, wlog, rcl, bat, scn>>

\* detector.ts 64-110: getTokenAccountData answers
CheckToken ==
  /\ pc = "chk_token"
  /\ LET a == chk.pubkey
         td == getTokenAccountData(chain[a])
         c == [chk EXCEPT !.reads = @ + 1]
     IN IF isZeroBalance(td)
          THEN /\ CheckReturn(fnd, c, ZeroBalanceResult(a, c.row, td))
               /\ registry' = updateAccountState(registry, a, "reclaimable", td.lamports)
          ELSE CheckTail(c, c.info)
  /\ UNCHANGED <<whitelist, history, chain, rentExempt, cfgDryRun, operators, rty, procs, wlog, rcl, bat, scn>>

(* ------------------------------ operators ----------------------------- *)
OperatorNames == {"alice", "bob", "carol"}

\* UPDATE operators SET is_default = 0
UnsetDefaults(rows) == [i \in 1..Len(rows) |-> [rows[i] EXCEPT !.is_default = FALSE]]

\* operators.ts 71-82: the defaults are cleared first, then the row is
\* inserted; a name that is taken fails the INSERT (name TEXT UNIQUE) after
\* the defaults were cleared
OperatorsAfterAdd(ops, name, setAsDefault) ==
  LET cleared == IF setAsDefault THEN UnsetDefaults(ops.rows) ELSE ops.rows
  IN IF \E i \in 1..Len(ops.rows) : ops.rows[i].name = name
       THEN [ops EXCEPT !.rows = cleared]
       ELSE [ops EXCEPT !.rows = Append(cleared, [id |-> ops.seq + 1, name |-> name,
                                                  is_default |-> setAsDefault]),
                        !.seq = @ + 1]

\* mutant: the previous default is kept
RowsAfterSetDefault_NoClear(rows, id) ==
  [i \in 1..Len(rows) |-> IF rows[i].id = id THEN [rows[i] EXCEPT !.is_default = TRUE] ELSE rows[i]]

\* operators.ts 205-209: UPDATE ... SET is_default = 0, then
\* UPDATE ... SET is_default = 1 WHERE id = ?
RowsAfterSetDefault(rows, id) ==
  [i \in 1..Len(rows) |->
     IF rows[i].id = id THEN [rows[i] EXCEPT !.is_default = TRUE]
     ELSE [rows[i] EXCEPT !.is_default = FALSE]]

\* operators.ts 232: DELETE FROM operators WHERE id = ?
RowsAfterRemove(rows, id) == SelectSeq(rows, LAMBDA r : r.id # id)

\* the operator commands are synchronous calls on the table
OperatorCall(op, arg, ops) ==
  /\ pc = "idle"
  /\ operators' = [ops EXCEPT !.op = op, !.arg = arg, !.before = operators.rows]
  /\ UNCHANGED <<registry, whitelist, history, chain, rentExempt, cfgDryRun, pc, chk, rcl, bat, scn, fnd, rty, procs, wlog>>

addOperator(name, setAsDefault) ==
  /\ operators.seq < MaxOperatorId
  /\ OperatorCall("add", operators.seq + 1, OperatorsAfterAdd(operators, name, setAsDefault))

setDefaultOperator(id) ==
  OperatorCall("setDefault", id, [operators EXCEPT !.rows = RowsAfterSetDefault(@, id)])

\* operators.ts 219-233: no statement of the program writes the operator_id
\* column of tracked_accounts, so the count that guards the removal is 0
removeOperator(id) ==
  OperatorCall("remove", id, [operators EXCEPT !.rows = RowsAfterRemove(@, id)])

\* UPDATE operators SET is_default = 1 WHERE id = ?
SetDefaultFlag(rows, id) ==
  [i \in 1..Len(rows) |-> IF rows[i].id = id THEN [rows[i] EXCEPT !.is_default = TRUE] ELSE rows[i]]

\* INSERT INTO operators (name, ..., is_default): the UNIQUE constraint on
\* name rejects a name that is taken
InsertOperator(ops, name, isDefault) ==
  IF \E i \in 1..Len(ops.rows) : ops.rows[i].name = name
    THEN ops
    ELSE [ops EXCEPT !.rows = Append(@, [id |-> ops.seq + 1, name |-> name, is_default |-> isDefault]),
                     !.seq = @ + 1]

\* a statement of process p on the operators table; better-sqlite3 runs each
\* statement in its own implicit transaction
OperatorStatement(p, ops, next) ==
  /\ operators' = ops
  /\ procs' = [procs EXCEPT ![p] = next]
  /\ UNCHANGED <<registry, whitelist, history, chain, rentExempt, cfgDryRun, pc, chk, rcl, bat,
                 scn, fnd, rty, wlog>>

\* operators.ts 206: the first statement of setDefaultOperator(id)
SetDefaultClears(p, id) ==
  /\ procs[p].step = "idle"
  /\ OperatorStatement(p, [operators EXCEPT !.rows = UnsetDefaults(@)],
                       [NoProc EXCEPT !.op = "setDefault", !.step = "cleared", !.id = id])

\* operators.ts 209: its second statement
SetDefaultSets(p) ==
  /\ procs[p].op = "setDefault" /\ procs[p].step = "cleared"
  /\ OperatorStatement(p, [operators EXCEPT !.rows = SetDefaultFlag(@, procs[p].id)],
                       [procs[p] EXCEPT !.step = "idle"])

\* operators.ts 71-74: the first statement of addOperator(name, ..., true)
AddOperatorClears(p, name) ==
  /\ procs[p].step = "idle"
  /\ operators.seq < MaxOperatorId
  /\ OperatorStatement(p, [operators EXCEPT !.rows = UnsetDefaults(@)],
                       [NoProc EXCEPT !.op = "add", !.step = "cleared", !.name = name])

\* operators.ts 76-81: the INSERT
AddOperatorInserts(p) ==
  /\ procs[p].op = "add" /\ procs[p].step = "cleared"
  /\ OperatorStatement(p, InsertOperator(operators, procs[p].name, TRUE),
                       [procs[p] EXCEPT !.step = "idle"])

(* ------------------------------- finder ------------------------------- *)
\* detector.ts 116-121
findAllReclaimable ==
  /\ pc = "idle"
  /\ fnd' = [NoFnd EXCEPT !.state = "running", !.accounts = getAllTrackedAccounts(registry)]
  /\ pc' = "fnd_loop"
  /\ chk' = NoChk /\ rcl' = NoRcl /\ bat' = NoBat /\ scn' = NoScn
  /\ UNCHANGED <<registry, whitelist, history, chain, rentExempt, cfgDryRun, operators, rty, procs, wlog>>

\* detector.ts 123-126
Skipped(account) == account.status \in {"reclaimed", "protected"}

\* detector.ts 123-144: one turn of the loop, or the return
FindLoop ==
  /\ pc = "fnd_loop"
  /\ IF fnd.i < Len(fnd.accounts)
       THEN LET account == fnd.accounts[fnd.i + 1]
            IN IF Skipped(account)
                 THEN fnd' = [fnd EXCEPT !.i = @ + 1] /\ UNCHANGED <<pc, chk>>
                 ELSE CheckGates([fnd EXCEPT !.calls = Append(@, account.pubkey)], account.pubkey)
       ELSE fnd' = [fnd EXCEPT !.state = "returned"] /\ pc' = "idle" /\ UNCHANGED chk
  /\ UNCHANGED <<registry, whitelist, history, chain, rentExempt, cfgDryRun, operators, rty, procs, wlog, rcl, bat, scn>>

(* ------------------------------- scanner ------------------------------ *)
\* the scanner call ends: it returned, or it threw
ScanEnd(sc, how) ==
  /\ scn' = [sc EXCEPT !.state = how]
  /\ pc' = "idle"

\* monitor.ts 162-166
scanOperatorAccounts ==
  /\ pc = "idle"
  /\ LET follows == scn.op = "owned" /\ scn.state = "returned"
         new == {scn.list[k].pubkey : k \in {j \in 1..Len(scn.list) :
                   /\ scn.list[j].amount > 0
                   /\ ~getTrackedAccount(scn.regBefore, scn.list[j].pubkey).tracked}}
     IN scn' = [NoScn EXCEPT !.op = "owned", !.state = "running", !.regBefore = registry,
                             !.prevNew = IF follows THEN new ELSE {}]
  /\ pc' = "scn_list"
  /\ chk' = NoChk /\ rcl' = NoRcl /\ bat' = NoBat /\ fnd' = NoFnd
  /\ UNCHANGED <<registry, whitelist, history, chain, rentExempt, cfgDryRun, operators, rty, procs, wlog>>

\* monitor.ts 166: getOperatorTokenAccounts answers
ScanList ==
  /\ pc = "scn_list"
  /\ LET sc == [scn EXCEPT !.listed = TRUE, !.list = getOperatorTokenAccounts(chain)]
     IN IF sc.list = <<>> THEN ScanEnd(sc, "returned") ELSE scn' = sc /\ pc' = "scn_item"
  /\ UNCHANGED <<registry, whitelist, history, chain, rentExempt, cfgDryRun, operators, rty, procs, wlog, chk, rcl, bat, fnd>>

\* monitor.ts 166: the listing request fails, the call throws
ScanListError ==
  /\ pc = "scn_list"
  /\ ScanEnd(scn, "threw")
  /\ UNCHANGED <<registry, whitelist, history, chain, rentExempt, cfgDryRun, operators, rty, procs, wlog, chk, rcl, bat, fnd>>

\* monitor.ts 169-199: one listed account; the amount is the one of the
\* listing, the lamports are read now
ScanItem ==
  /\ pc = "scn_item"
  /\ LET item == scn.list[scn.i + 1]
         info == getAccountInfo(chain[item.pubkey])
         lamports == IF info.found THEN info.lamports ELSE 0
         trackedAccount == Row(item.pubkey, "token_account", lamports,
                               IF item.amount = 0 THEN "reclaimable" ELSE "active", NoActivity)
         sc == [scn EXCEPT !.i = @ + 1, !.tracked = Append(@, item.pubkey)]
     IN /\ registry' = addTrackedAccount(registry, trackedAccount)
        /\ IF sc.i < Len(sc.list) THEN scn' = sc /\ pc' = "scn_item" ELSE ScanEnd(sc, "returned")
  /\ UNCHANGED <<whitelist, history, chain, rentExempt, cfgDryRun, operators, rty, procs, wlog, chk, rcl, bat, fnd>>

\* monitor.ts 177: getAccountInfo fails after its retries; the loop has no
\* try block, the call throws
ScanItemError ==
  /\ pc = "scn_item"
  /\ ScanEnd(scn, "threw")
  /\ UNCHANGED <<registry, whitelist, history, chain, rentExempt, cfgDryRun, operators, rty, procs, wlog, chk, rcl, bat, fnd>>

\* monitor.ts 210-220; a signature is modelled by the address of the
\* account its transaction created
scanFromSignatures(signatures) ==
  /\ pc = "idle"
  /\ scn' = [NoScn EXCEPT !.op = "sigs", !.state = "running", !.list = signatures,
                          !.regBefore = registry]
  /\ pc' = "scn_tx"
  /\ chk' = NoChk /\ rcl' = NoRcl /\ bat' = NoBat /\ fnd' = NoFnd
  /\ UNCHANGED <<registry, whitelist, history, chain, rentExempt, cfgDryRun, operators, rty, procs, wlog>>

\* monitor.ts 220-226, 275-284: the next signature's transaction is fetched,
\* or the loop ends
ScanTx ==
  /\ pc = "scn_tx"
  /\ IF scn.i < Len(scn.list)
       THEN scn' = scn /\ pc' = "scn_sig_info"
       ELSE ScanEnd(scn, "returned")
  /\ UNCHANGED <<registry, whitelist, history, chain, rentExempt, cfgDryRun, operators, rty, procs, wlog, chk, rcl, bat, fnd>>

\* monitor.ts 222-226, 275-280: the transaction is not found, or a request
\* of this signature throws and the catch block logs it
ScanSigSkip ==
  /\ pc \in {"scn_tx", "scn_sig_info"}
  /\ scn.i < Len(scn.list)
  /\ scn' = [scn EXCEPT !.i = @ + 1]
  /\ pc' = "scn_tx"
  /\ UNCHANGED <<registry, whitelist, history, chain, rentExempt, cfgDryRun, operators, rty, procs, wlog, chk, rcl, bat, fnd>>

\* monitor.ts 250-272: the created account is read and, when it is there
\* and not yet tracked, registered as active
ScanSigInfo ==
  /\ pc = "scn_sig_info"
  /\ LET a == scn.list[scn.i + 1]
         info == getAccountInfo(chain[a])
         trackedAccount == Row(a, detectAccountType(chain[a]), info.lamports, "active", NoActivity)
         isNew == info.found /\ ~getTrackedAccount(registry, a).tracked
     IN /\ registry' = IF isNew THEN addTrackedAccount(registry, trackedAccount) ELSE registry
        /\ scn' = [scn EXCEPT !.i = @ + 1, !.tracked = IF isNew THEN Append(@, a) ELSE @]
  /\ pc' = "scn_tx"
  /\ UNCHANGED <<whitelist, history, chain, rentExempt, cfgDryRun, operators, rty, procs, wlog, chk, rcl, bat, fnd>>

\* monitor.ts 294-303: an address that is tracked is returned as it is
trackAccount(a) ==
  /\ pc = "idle"
  /\ LET sc == [NoScn EXCEPT !.op = "track", !.state = "running", !.pubkey = a,
                             !.regBefore = registry,
                             !.existing = getTrackedAccount(registry, a).tracked]
     IN IF sc.existing THEN ScanEnd(sc, "returned") ELSE scn' = sc /\ pc' = "trk_info"
  /\ chk' = NoChk /\ rcl' = NoRcl /\ bat' = NoBat /\ fnd' = NoFnd
  /\ UNCHANGED <<registry, whitelist, history, chain, rentExempt, cfgDryRun, operators, rty, procs, wlog>>

\* monitor.ts 306: getAccountInfo fails after its retries, the call throws
TrackReadError ==
  /\ pc = "trk_info"
  /\ ScanEnd(scn, "threw")
  /\ UNCHANGED <<registry, whitelist, history, chain, rentExempt, cfgDryRun, operators, rty, procs, wlog, chk, rcl, bat, fnd>>

\* mutant: the row is written although the account was not found
TrackedAfter_Always(reg, info, acc) == addTrackedAccount(reg, acc)

\* monitor.ts 307-322: an account that is not found is not registered
TrackedAfter(reg, info, acc) == IF info.found THEN addTrackedAccount(reg, acc) ELSE reg

\* monitor.ts 306-331: null with the 'Account not found on chain' warning,
\* else the new row
TrackInfo ==
  /\ pc = "trk_info"
  /\ LET a == scn.pubkey
         info == getAccountInfo(chain[a])
         trackedAccount == Row(a, detectAccountType(chain[a]), info.lamports, "active", NoActivity)
     IN /\ registry' = TrackedAfter(registry, info, trackedAccount)
        /\ ScanEnd([scn EXCEPT !.info = info, !.null = ~info.found,
                               !.tracked = IF info.found THEN <<a>> ELSE <<>>], "returned")
  /\ UNCHANGED <<whitelist, history, chain, rentExempt, cfgDryRun, operators, rty, procs, wlog, chk, rcl, bat, fnd>>

(* ------------------------------ reclaimer ----------------------------- *)
\* mutant: the balance re-check is skipped
HasBalance_Never(td) == FALSE

\* reclaimer.ts 95: the live balance is no longer zero
HasBalance(td) == td.amount > 0

\* mutant: the owner check is skipped
OwnedByOperator_Always(td) == TRUE

\* reclaimer.ts 125: tokenData.owner.equals(operator.publicKey)
OwnedByOperator(td) == td.owner = OperatorKey

\* mutant: closeTokenAccount does not look at the balance
CloseHasBalance_Never(td) == FALSE

\* solana.ts 160: closeTokenAccount refuses a non-zero balance
CloseHasBalance(td) == td.amount > 0

\* solana.ts 167: closeTokenAccount refuses an authority that is not the owner
AuthorityMatches(td, authority) == td.owner = authority

\* mutant: the status is written before the close is known to have succeeded
RegistryAfterClose_Eager(reg, a, confirmed) == updateAccountStatus(reg, a, "reclaimed")

\* reclaimer.ts 136-143: the status is written after the awaited close
\* returned; a close that throws skips the write
RegistryAfterClose(reg, a, confirmed) ==
  IF confirmed THEN updateAccountStatus(reg, a, "reclaimed") ELSE reg

\* reclaimer.ts 144-149, likewise
HistoryAfterClose(h, a, amt, sig, why, confirmed) ==
  IF confirmed THEN addReclaimHistory(h, a, amt, sig, why) ELSE h

\* mutant: the configured default is ignored
ResolveDryRun_OptionOnly(opt, dflt) == opt = "true"

\* options.dryRun ?? config.dryRun
ResolveDryRun(opt, dflt) == IF opt = "unset" THEN dflt ELSE opt = "true"

\* batchReclaim's results.push(result) and the delay test that follows it
PushResult(b, res) ==
  [b EXCEPT !.results = Append(@, res),
            !.delays = Append(@, b.i < Len(b.toProcess) - 1 /\ res.success /\ b.dryRunOpt # "true"),
            !.i = @ + 1]

\* reclaimTokenAccount returns res; inside batchReclaim the loop goes on
Finish(b, r, res) ==
  /\ rcl' = [r EXCEPT !.state = "returned", !.result = res]
  /\ IF b.state = "running"
       THEN bat' = PushResult(b, res) /\ pc' = "bat_loop"
       ELSE bat' = b /\ pc' = "idle"

\* reclaimer.ts 36-81: the synchronous gates, up to the first ledger read
Gates(b, d, opt) ==
  LET a == d.pubkey
      r == [NoRcl EXCEPT !.state = "running", !.det = d, !.dryRunOpt = opt,
                         !.dryRun = ResolveDryRun(opt, cfgDryRun),
                         !.wasProtected = (a \in whitelist),
                         !.regBefore = registry, !.histBefore = history]
  IN IF ~d.safe
       THEN Finish(b, r, Failure(a, "unsafe"))
       ELSE IF isAccountProtected(whitelist, a)
         THEN Finish(b, r, Failure(a, "protected"))
         ELSE IF d.account.accountType \notin TokenTypes
           THEN Finish(b, r, Failure(a, "non_token"))
           ELSE rcl' = r /\ bat' = b /\ pc' = "rcl_read1"

\* detections a caller can hold for address a: what checkAccount can have
\* returned for the tracked row at some earlier ledger state
DetsFor(reg, a) ==
  LET row == getTrackedAccount(reg, a)
  IN IF ~row.tracked THEN {}
     ELSE {ClosedResult(a, row)}
          \cup (IF row.accountType \in TokenTypes
                  THEN {ZeroBalanceResult(a, row, [NoTokenData EXCEPT !.lamports = row.rentLamports])}
                  ELSE {})
          \cup (IF isInactive(row)
                  THEN {InactiveResult(a, row, [NoInfo EXCEPT !.lamports = row.rentLamports])}
                  ELSE {})

AllDets(reg) == UNION {DetsFor(reg, a) : a \in Addrs}

DryRunOpts == {"unset", "true", "false"}

reclaimTokenAccount(d, opt) ==
  /\ pc = "idle"
  /\ Gates(NoBat, d, opt)
  /\ chk' = NoChk /\ scn' = NoScn /\ fnd' = NoFnd
  /\ UNCHANGED <<registry, whitelist, history, chain, rentExempt, cfgDryRun, operators, rty, procs, wlog>>

\* reclaimer.ts 81: the read outside the try block fails, the call throws
ReclaimReadError ==
  /\ pc = "rcl_read1"
  /\ rcl' = [rcl EXCEPT !.state = "threw"]
  /\ bat' = IF bat.state = "running" THEN [bat EXCEPT !.state = "threw"] ELSE bat
  /\ pc' = "idle"
  /\ UNCHANGED <<registry, whitelist, history, chain, rentExempt, cfgDryRun, operators, rty, procs, wlog, chk, scn, fnd>>

\* reclaimer.ts 81-136: getTokenAccountData answers
ReclaimRead1 ==
  /\ pc = "rcl_read1"
  /\ LET a == rcl.det.pubkey
         td == getTokenAccountData(chain[a])
         r == [rcl EXCEPT !.tokenData = td, !.reads = @ + 1]
     IN IF ~td.found
          THEN /\ Finish(bat, r, Success(a, 0, "", "already_closed"))
               /\ registry' = updateAccountStatus(registry, a, "reclaimed")
          ELSE /\ UNCHANGED registry
               /\ IF HasBalance(td)
                    THEN Finish(bat, r, Failure(a, "nonzero_balance"))
                    ELSE IF r.dryRun
                      THEN Finish(bat, r, Success(a, td.lamports, "DRY_RUN", "none"))
                      ELSE IF ~OwnedByOperator(td)
                        THEN Finish(bat, r, Failure(a, "not_owner"))
                        ELSE rcl' = r /\ pc' = "rcl_read2" /\ UNCHANGED bat
  /\ UNCHANGED <<whitelist, history, chain, rentExempt, cfgDryRun, operators, rty, procs, wlog, chk, scn, fnd>>

\* solana.ts 155-172: closeTokenAccount re-reads and re-checks; every throw
\* (a failed read included) is caught at reclaimer.ts 162
ReclaimRead2 ==
  /\ pc = "rcl_read2"
  /\ \/ Finish(bat, rcl, Failure(rcl.det.pubkey, "read_failed"))
     \/ LET a == rcl.det.pubkey
            td == getTokenAccountData(chain[a])
            r == [rcl EXCEPT !.tokenData2 = td, !.reads = @ + 1]
        IN IF ~td.found
             THEN Finish(bat, r, Failure(a, "close_not_found"))
             ELSE IF CloseHasBalance(td)
               THEN Finish(bat, r, Failure(a, "close_nonzero_balance"))
               ELSE IF ~AuthorityMatches(td, OperatorKey)
                 THEN Finish(bat, r, Failure(a, "close_authority_mismatch"))
                 ELSE rcl' = r /\ pc' = "rcl_submit" /\ UNCHANGED bat
  /\ UNCHANGED <<registry, whitelist, history, chain, rentExempt, cfgDryRun, operators, rty, procs, wlog, chk, scn, fnd>>

\* mutant: the ledger executes every close it is sent
LedgerAccepts_Always(c) == TRUE

\* the token program executes CloseAccount only on an empty account and
\* only when the signer is its owner
LedgerAccepts(c) == c.exists /\ c.token /\ c.amount = 0 /\ c.owner = OperatorKey

\* mutant: a close that threw is sent again
SubmitFailed_Resend(b, r, a) == rcl' = r /\ bat' = b /\ pc' = "rcl_submit"

\* reclaimer.ts 162-176: the catch block turns the exception of the close
\* into a failure result; closeTokenAccount calls sendAndConfirmTransaction
\* directly, outside the retry helper
SubmitFailed(b, r, a) == Finish(b, r, Failure(a, "send_failed"))

\* solana.ts 184 and reclaimer.ts 142-177: sendAndConfirmTransaction either
\* returns the signature of the executed close, or throws (the transaction
\* was rejected, never landed, or landed without a confirmation in time)
ReclaimSubmit ==
  /\ pc = "rcl_submit"
  /\ LET a == rcl.det.pubkey
         r == [rcl EXCEPT !.submits = @ + 1]
         sig == Signatures[Len(history) + 1]
         amt == r.tokenData.lamports
     IN \E executed \in {FALSE, LedgerAccepts(chain[a])}, confirmed \in BOOLEAN :
          /\ confirmed => executed
          /\ chain' = IF executed THEN [chain EXCEPT ![a] = Absent] ELSE chain
          /\ registry' = RegistryAfterClose(registry, a, confirmed)
          /\ history' = HistoryAfterClose(history, a, amt, sig, r.det.reason, confirmed)
          /\ IF confirmed
               THEN Finish(bat, r, Success(a, amt, sig, "none"))
               ELSE SubmitFailed(bat, r, a)
  /\ UNCHANGED <<whitelist, rentExempt, cfgDryRun, operators, rty, procs, wlog, chk, scn, fnd>>

(* ----------------------- reclaimer, two processes --------------------- *)
\* reclaimTokenAccount of process p returns res
ProcReturn(p, q, res) ==
  procs' = [procs EXCEPT ![p] = [q EXCEPT !.step = "done", !.result = res]]

\* reclaimer.ts 36-81 in process p: the synchronous gates of
\* reclaimTokenAccount(d, {}), up to the first ledger read
ProcReclaim(p, d) ==
  /\ procs[p].step = "idle"
  /\ LET a == d.pubkey
         q == [NoProc EXCEPT !.op = "reclaim", !.det = d]
     IN IF ~d.safe
          THEN ProcReturn(p, q, Failure(a, "unsafe"))
          ELSE IF isAccountProtected(whitelist, a)
            THEN ProcReturn(p, q, Failure(a, "protected"))
            ELSE IF d.account.accountType \notin TokenTypes
              THEN ProcReturn(p, q, Failure(a, "non_token"))
              ELSE procs' = [procs EXCEPT ![p] = [q EXCEPT !.step = "read1"]]
  /\ UNCHANGED <<registry, whitelist, history, chain, rentExempt, cfgDryRun, pc, chk, rcl, bat,
                 scn, fnd, operators, rty, wlog>>

\* reclaimer.ts 81: the read outside the try block fails, the call throws
ProcReadError(p) ==
  /\ procs[p].step = "read1"
  /\ procs' = [procs EXCEPT ![p] = [@ EXCEPT !.step = "threw"]]
  /\ UNCHANGED <<registry, whitelist, history, chain, rentExempt, cfgDryRun, pc, chk, rcl, bat,
                 scn, fnd, operators, rty, wlog>>

\* reclaimer.ts 81-136 in process p: getTokenAccountData answers
ProcRead1(p) ==
  /\ procs[p].step = "read1"
  /\ LET a == procs[p].det.pubkey
         td == getTokenAccountData(chain[a])
         q == [procs[p] EXCEPT !.tokenData = td]
     IN IF ~td.found
          THEN /\ ProcReturn(p, q, Success(a, 0, "", "already_closed"))
               /\ registry' = updateAccountStatus(registry, a, "reclaimed")
          ELSE /\ UNCHANGED registry
               /\ IF HasBalance(td)
                    THEN ProcReturn(p, q, Failure(a, "nonzero_balance"))
                    ELSE IF ResolveDryRun("unset", cfgDryRun)
                      THEN ProcReturn(p, q, Success(a, td.lamports, "DRY_RUN", "none"))
                      ELSE IF ~OwnedByOperator(td)
                        THEN ProcReturn(p, q, Failure(a, "not_owner"))
                        ELSE procs' = [procs EXCEPT ![p] = [q EXCEPT !.step = "read2"]]
  /\ UNCHANGED <<whitelist, history, chain, rentExempt, cfgDryRun, pc, chk, rcl, bat, scn, fnd,
                 operators, rty, wlog>>

\* solana.ts 155-172 in process p: closeTokenAccount re-reads and re-checks
ProcRead2(p) ==
  /\ procs[p].step = "read2"
  /\ \/ ProcReturn(p, procs[p], Failure(procs[p].det.pubkey, "read_failed"))
     \/ LET a == procs[p].det.pubkey
            td == getTokenAccountData(chain[a])
            q == [procs[p] EXCEPT !.tokenData2 = td]
        IN IF ~td.found
             THEN ProcReturn(p, q, Failure(a, "close_not_found"))
             ELSE IF CloseHasBalance(td)
               THEN ProcReturn(p, q, Failure(a, "close_nonzero_balance"))
               ELSE IF ~AuthorityMatches(td, OperatorKey)
                 THEN ProcReturn(p, q, Failure(a, "close_authority_mismatch"))
                 ELSE procs' = [procs EXCEPT ![p] = [q EXCEPT !.step = "submit"]]
  /\ UNCHANGED <<registry, whitelist, history, chain, rentExempt, cfgDryRun, pc, chk, rcl, bat,
                 scn, fnd, operators, rty, wlog>>

\* solana.ts 184 and reclaimer.ts 136-177 in process p: the close is sent;
\* the registry and the history are written when it was confirmed
ProcSubmit(p) ==
  /\ procs[p].step = "submit"
  /\ LET a == procs[p].det.pubkey
         sig == Signatures[Len(history) + 1]
         amt == procs[p].tokenData.lamports
     IN \E executed \in {FALSE, LedgerAccepts(chain[a])}, confirmed \in BOOLEAN :
          /\ confirmed => executed
          /\ chain' = IF executed THEN [chain EXCEPT ![a] = Absent] ELSE chain
          /\ registry' = RegistryAfterClose(registry, a, confirmed)
          /\ history' = HistoryAfterClose(history, a, amt, sig, procs[p].det.reason, confirmed)
          /\ ProcReturn(p, [procs[p] EXCEPT !.executed = executed],
                        IF confirmed THEN Success(a, amt, sig, "none") ELSE Failure(a, "send_failed"))
  /\ UNCHANGED <<whitelist, rentExempt, cfgDryRun, pc, chk, rcl, bat, scn, fnd, operators, rty, wlog>>

(* -------------------------------- batch ------------------------------- *)
\* mutant: the whole list is processed
Slice_All(seq, end) == seq

\* Array.prototype.slice(0, end) for end >= 0
Slice(seq, end) == SubSeq(seq, 1, IF end < Len(seq) THEN end ELSE Len(seq))

NoMax == -1

\* reclaimer.ts 187-193
batchReclaim(ds, m, opt) ==
  /\ pc = "idle"
  /\ bat' = [NoBat EXCEPT !.state = "running", !.dets = ds, !.maxAccounts = m,
                          !.dryRunOpt = opt,
                          !.toProcess = Slice(ds, IF m = NoMax THEN Len(ds) ELSE m),
                          !.regBefore = registry, !.histBefore = history]
  /\ pc' = "bat_loop"
  /\ chk' = NoChk /\ rcl' = NoRcl /\ scn' = NoScn /\ fnd' = NoFnd
  /\ UNCHANGED <<registry, whitelist, history, chain, rentExempt, cfgDryRun, operators, rty, procs, wlog>>

\* reclaimer.ts 194-221: one turn of the loop, or the return
BatchLoop ==
  /\ pc = "bat_loop"
  /\ IF bat.i < Len(bat.toProcess)
       THEN Gates([bat EXCEPT !.calls = Append(@, bat.toProcess[bat.i + 1])],
                  bat.toProcess[bat.i + 1], bat.dryRunOpt)
       ELSE bat' = [bat EXCEPT !.state = "returned"] /\ pc' = "idle" /\ UNCHANGED rcl
  /\ UNCHANGED <<registry, whitelist, history, chain, rentExempt, cfgDryRun, operators, rty, procs, wlog, chk, scn, fnd>>

(* ------------------------------- retry -------------------------------- *)
\* what the retried function resolves to (getAccountInfo: the account, or
\* null) and what it rejects with
Values == {"account", "null"}

Errors == {"timeout", "rate_limited", "unavailable"}

\* lastError before any attempt has failed
Undefined == "undefined"

\* calls counts the invocations of fn, errors holds what they rejected with,
\* delays the sleeps, in milliseconds
NoRty ==
  [state |-> "none", maxRetries |-> 0, baseDelayMs |-> 0, attempt |-> 0, calls |-> 0,
   errors |-> <<>>, delays |-> <<>>, lastError |-> Undefined, result |-> "none",
   thrown |-> "none"]

RECURSIVE Pow2(_)
Pow2(n) == IF n = 0 THEN 1 ELSE 2 * Pow2(n - 1)

\* mutant: one attempt more than maxRetries
LoopContinues_OneMore(attempt, maxRetries) == attempt <= maxRetries

\* helpers.ts 94: attempt < maxRetries
LoopContinues(attempt, maxRetries) == attempt < maxRetries

\* helpers.ts 99: attempt < maxRetries - 1
SleepsAfter(attempt, maxRetries) == attempt < maxRetries - 1

\* helpers.ts 100: baseDelayMs * Math.pow(2, attempt)
BackoffDelay(baseDelayMs, attempt) == baseDelayMs * Pow2(attempt)

\* helpers.ts 94 and 106: the loop test at the top of a turn; when it fails
\* the function throws lastError
LoopTop(r) ==
  IF LoopContinues(r.attempt, r.maxRetries)
    THEN [r EXCEPT !.state = "calling"]
    ELSE [r EXCEPT !.state = "threw", !.thrown = r.lastError]

\* helpers.ts 87-94: retry(fn, maxRetries, baseDelayMs)
retry(maxRetries, baseDelayMs) ==
  /\ rty.state \in {"none", "returned", "threw"}
  /\ rty' = LoopTop([NoRty EXCEPT !.maxRetries = maxRetries, !.baseDelayMs = baseDelayMs])
  /\ UNCHANGED <<registry, whitelist, history, chain, rentExempt, cfgDryRun, pc, chk, rcl, bat,
                 scn, fnd, operators, procs, wlog>>

\* helpers.ts 95-96: the awaited fn() resolves, retry returns its value
RetryResolves(v) ==
  /\ rty.state = "calling"
  /\ rty' = [rty EXCEPT !.state = "returned", !.calls = @ + 1, !.result = v]
  /\ UNCHANGED <<registry, whitelist, history, chain, rentExempt, cfgDryRun, pc, chk, rcl, bat,
                 scn, fnd, operators, procs, wlog>>

\* helpers.ts 97-103: the awaited fn() rejects; the error is kept, and the
\* helper sleeps or goes to the next turn
RetryRejects(e) ==
  /\ rty.state = "calling"
  /\ LET r == [rty EXCEPT !.calls = @ + 1, !.errors = Append(@, e), !.lastError = e]
     IN rty' = IF SleepsAfter(r.attempt, r.maxRetries)
                 THEN [r EXCEPT !.state = "sleeping",
                                !.delays = Append(@, BackoffDelay(r.baseDelayMs, r.attempt))]
                 ELSE LoopTop([r EXCEPT !.attempt = @ + 1])
  /\ UNCHANGED <<registry, whitelist, history, chain, rentExempt, cfgDryRun, pc, chk, rcl, bat,
                 scn, fnd, operators, procs, wlog>>

\* helpers.ts 83-85 and 101: the timer of sleep fires, the next turn starts
RetryWakes ==
  /\ rty.state = "sleeping"
  /\ rty' = LoopTop([rty EXCEPT !.attempt = @ + 1])
  /\ UNCHANGED <<registry, whitelist, history, chain, rentExempt, cfgDryRun, pc, chk, rcl, bat,
                 scn, fnd, operators, procs, wlog>>

(* ---------------------------- specification --------------------------- *)
\* elapsed times since the last recorded activity, in milliseconds: from half
\* a day below the inactivity threshold upwards, in steps of half a day
ActivityAges ==
  {MinInactiveDays * MsPerDay + k * (MsPerDay \div 2) : k \in -1..MaxAgeOver}

\* rows as the scanner leaves them (no activity recorded), and rows whose
\* last_activity_at column was filled in by hand or by another tool
InitRows ==
  {Row("a1", t, 1, s, NoActivity) : t \in AccountTypes, s \in {"active", "reclaimable"}}
  \cup {Row("a1", t, 1, "active", la) : t \in {"token_account", "pda"}, la \in ActivityAges}

\* a1 is tracked from the start, a2 is an address the registry has never seen
Init ==
  /\ registry \in {<<row>> : row \in InitRows}
  /\ whitelist = {}
  /\ history = <<>>
  /\ rentExempt \in 1..MaxLamports
  /\ chain \in {[a \in Addrs |-> IF a = "a1" THEN c ELSE Absent] : c \in {Absent} \cup Created(rentExempt)}
  /\ cfgDryRun \in BOOLEAN
  /\ pc = "idle"
  /\ chk = NoChk /\ rcl = NoRcl /\ bat = NoBat /\ scn = NoScn /\ fnd = NoFnd
  /\ operators = NoOperators
  /\ rty = NoRty
  /\ procs = NoProcs
  /\ wlog = NoWl

\* ledger events on the addresses the registry follows
Tracked == {a \in Addrs : getTrackedAccount(registry, a).tracked}

Next ==
  \/ \E a \in Tracked : Deposit(a)
  \/ \E a \in Tracked : Withdraw(a)
  \/ \E a \in Tracked : ExternalClose(a)
  \/ \E a \in Tracked : SetOwner(a)
  \/ \E a \in Tracked : Recreate(a)
  \/ \E a \in Addrs : addProtectedAccount(a)
  \/ \E a \in Addrs : removeProtectedAccount(a)
  \/ \E a \in Addrs : checkAccount(a)
  \/ CheckReadError
  \/ CheckInfo
  \/ CheckToken
  \/ \E d \in AllDets(registry), opt \in DryRunOpts : reclaimTokenAccount(d, opt)
  \/ ReclaimReadError
  \/ ReclaimRead1
  \/ ReclaimRead2
  \/ ReclaimSubmit

Spec == Init /\ [][Next]_vars

(* ------------------------ batch specification ------------------------ *)
\* both addresses are tracked token accounts, as scanOperatorAccounts leaves
\* them, and the caller holds their zero_balance detections
BatchRow(a) == Row(a, "token_account", 1, "reclaimable", NoActivity)

BatchDets == {ZeroBalanceResult(a, BatchRow(a), [NoTokenData EXCEPT !.lamports = 1]) : a \in Addrs}

RECURSIVE SeqsUpTo(_, _)
SeqsUpTo(S, n) ==
  IF n = 0 THEN {<<>>}
  ELSE SeqsUpTo(S, n - 1) \cup {Append(q, x) : q \in {t \in SeqsUpTo(S, n - 1) : Len(t) = n - 1}, x \in S}

InitBatch ==
  /\ registry = <<BatchRow("a1"), BatchRow("a2")>>
  /\ whitelist = {}
  /\ history = <<>>
  /\ rentExempt = MaxLamports
  /\ chain \in [Addrs -> {Absent, TokenAcct(0, OperatorKey, rentExempt), TokenAcct(0, OtherKey, rentExempt)}]
  /\ cfgDryRun \in BOOLEAN
  /\ pc = "idle"
  /\ chk = NoChk /\ rcl = NoRcl /\ bat = NoBat /\ scn = NoScn /\ fnd = NoFnd
  /\ operators = NoOperators
  /\ rty = NoRty
  /\ procs = NoProcs
  /\ wlog = NoWl

NextBatch ==
  \/ \E a \in Addrs : Deposit(a)
  \/ \E a \in Addrs : ExternalClose(a)
  \/ /\ bat.state = "none"     \* the record of the previous batch has been discarded
     /\ \E ds \in SeqsUpTo(BatchDets, MaxBatch), m \in {NoMax} \cup 0..MaxBatch, opt \in DryRunOpts :
          batchReclaim(ds, m, opt)
  \/ BatchLoop
  \/ ReclaimReadError
  \/ ReclaimRead1
  \/ ReclaimRead2
  \/ ReclaimSubmit

SpecBatch == InitBatch /\ [][NextBatch]_vars

(* ----------------------- scanner specification ----------------------- *)
\* the registry starts empty and the scanner fills it; each address starts
\* in any ledger state and may be funded, emptied, handed over and closed
InitScan ==
  /\ registry = <<>>
  /\ whitelist = {}
  /\ history = <<>>
  /\ rentExempt = MaxLamports
  /\ chain \in [Addrs -> {Absent} \cup Created(rentExempt)]
  /\ cfgDryRun = FALSE
  /\ pc = "idle"
  /\ chk = NoChk /\ rcl = NoRcl /\ bat = NoBat /\ scn = NoScn /\ fnd = NoFnd
  /\ operators = NoOperators
  /\ rty = NoRty
  /\ procs = NoProcs
  /\ wlog = NoWl

NextScan ==
  \/ \E a \in Addrs : Deposit(a)
  \/ \E a \in Addrs : Withdraw(a)
  \/ \E a \in Addrs : ExternalClose(a)
  \/ \E a \in Addrs : SetOwner(a)
  \/ scanOperatorAccounts
  \/ ScanList
  \/ ScanListError
  \/ ScanItem
  \/ ScanItemError
  \/ \E signatures \in SeqsUpTo(Addrs, MaxSigs) : scanFromSignatures(signatures)
  \/ ScanTx
  \/ ScanSigSkip
  \/ ScanSigInfo
  \/ \E a \in Addrs : trackAccount(a)
  \/ TrackReadError
  \/ TrackInfo

SpecScan == InitScan /\ [][NextScan]_vars

(* ---------------------- operators specification ---------------------- *)
InitOps ==
  /\ registry = <<>>
  /\ whitelist = {}
  /\ history = <<>>
  /\ rentExempt = MaxLamports
  /\ chain = [a \in Addrs |-> Absent]
  /\ cfgDryRun = TRUE
  /\ pc = "idle"
  /\ chk = NoChk /\ rcl = NoRcl /\ bat = NoBat /\ scn = NoScn /\ fnd = NoFnd
  /\ operators = NoOperators
  /\ rty = NoRty
  /\ procs = NoProcs
  /\ wlog = NoWl

NextOps ==
  \/ \E name \in OperatorNames, setAsDefault \in BOOLEAN : addOperator(name, setAsDefault)
  \/ \E id \in 1..MaxOperatorId : setDefaultOperator(id)
  \/ \E id \in 1..MaxOperatorId : removeOperator(id)

SpecOps == InitOps /\ [][NextOps]_vars

(* ----------------- reclaimer specification, two processes ------------ *)
\* both addresses are tracked, empty token accounts of the operator; each of
\* two processes makes one reclaimTokenAccount call with a zero_balance
\* detection, while tokens may arrive and the owner may close an account
InitTwo ==
  /\ registry = <<BatchRow("a1"), BatchRow("a2")>>
  /\ whitelist = {}
  /\ history = <<>>
  /\ rentExempt = MaxLamports
  /\ chain = [a \in Addrs |-> TokenAcct(0, OperatorKey, rentExempt)]
  /\ cfgDryRun = FALSE
  /\ pc = "idle"
  /\ chk = NoChk /\ rcl = NoRcl /\ bat = NoBat /\ scn = NoScn /\ fnd = NoFnd
  /\ operators = NoOperators
  /\ rty = NoRty
  /\ procs = NoProcs
  /\ wlog = NoWl

NextTwo ==
  \/ \E a \in Addrs : Deposit(a)
  \/ \E a \in Addrs : ExternalClose(a)
  \/ \E p \in Procs, d \in BatchDets : ProcReclaim(p, d)
  \/ \E p \in Procs : ProcReadError(p)
  \/ \E p \in Procs : ProcRead1(p)
  \/ \E p \in Procs : ProcRead2(p)
  \/ \E p \in Procs : ProcSubmit(p)

SpecTwo == InitTwo /\ [][NextTwo]_vars

(* ----------------- operators specification, two processes ------------ *)
\* the table holds two operators, the first of them the default; two
\* processes run setDefaultOperator and addOperator with the default option
InitOpsTwo ==
  /\ registry = <<>>
  /\ whitelist = {}
  /\ history = <<>>
  /\ rentExempt = MaxLamports
  /\ chain = [a \in Addrs |-> Absent]
  /\ cfgDryRun = TRUE
  /\ pc = "idle"
  /\ chk = NoChk /\ rcl = NoRcl /\ bat = NoBat /\ scn = NoScn /\ fnd = NoFnd
  /\ operators = [NoOperators EXCEPT
                    !.rows = <<[id |-> 1, name |-> "alice", is_default |-> TRUE],
                               [id |-> 2, name |-> "bob", is_default |-> FALSE]>>,
                    !.seq = 2]
  /\ rty = NoRty
  /\ procs = NoProcs
  /\ wlog = NoWl

NextOpsTwo ==
  \/ \E p \in Procs, id \in 1..MaxOperatorId : SetDefaultClears(p, id)
  \/ \E p \in Procs : SetDefaultSets(p)
  \/ \E p \in Procs, name \in OperatorNames : AddOperatorClears(p, name)
  \/ \E p \in Procs : AddOperatorInserts(p)

SpecOpsTwo == InitOpsTwo /\ [][NextOpsTwo]_vars

(* ------------------------- retry specification ----------------------- *)
\* the helper is called with the defaults, as getAccountInfo and
\* getMultipleAccountsInfo call it, or with explicit arguments
InitRetry ==
  /\ registry = <<>>
  /\ whitelist = {}
  /\ history = <<>>
  /\ rentExempt = MaxLamports
  /\ chain = [a \in Addrs |-> Absent]
  /\ cfgDryRun = FALSE
  /\ pc = "idle"
  /\ chk = NoChk /\ rcl = NoRcl /\ bat = NoBat /\ scn = NoScn /\ fnd = NoFnd
  /\ operators = NoOperators
  /\ rty = NoRty
  /\ procs = NoProcs
  /\ wlog = NoWl

BaseDelays == {1, DefaultBaseDelayMs}

\* the awaited fn() settles, one way or the other
RetrySettles ==
  \/ \E v \in Values : RetryResolves(v)
  \/ \E e \in Errors : RetryRejects(e)

NextRetry ==
  \/ \E m \in (0..MaxRetries) \cup {DefaultMaxRetries}, b \in BaseDelays : retry(m, b)
  \/ RetrySettles
  \/ RetryWakes

\* every attempt settles and every timer fires
SpecRetry ==
  /\ InitRetry /\ [][NextRetry]_vars
  /\ WF_vars(RetrySettles)
  /\ WF_vars(RetryWakes)

(* ------------------------ whole-tool specification -------------------- *)
\* both addresses hold empty token accounts of the operator and the registry
\* starts empty; every operation of the scanner, the detector, the reclaimer
\* and the whitelist may follow
InitAll ==
  /\ registry = <<>>
  /\ whitelist = {}
  /\ history = <<>>
  /\ rentExempt = MaxLamports
  /\ chain = [a \in Addrs |-> TokenAcct(0, OperatorKey, rentExempt)]
  /\ cfgDryRun = FALSE
  /\ pc = "idle"
  /\ chk = NoChk /\ rcl = NoRcl /\ bat = NoBat /\ scn = NoScn /\ fnd = NoFnd
  /\ operators = NoOperators
  /\ rty = NoRty
  /\ procs = NoProcs
  /\ wlog = NoWl

NextAll ==
  \/ \E a \in Addrs : Deposit(a)
  \/ \E a \in Addrs : ExternalClose(a)
  \/ scanOperatorAccounts
  \/ ScanList
  \/ ScanListError
  \/ ScanItem
  \/ ScanItemError
  \/ \E signatures \in SeqsUpTo(Addrs, MaxSigs) : scanFromSignatures(signatures)
  \/ ScanTx
  \/ ScanSigSkip
  \/ ScanSigInfo
  \/ \E a \in Addrs : trackAccount(a)
  \/ TrackReadError
  \/ TrackInfo
  \/ \E a \in Addrs : addProtectedAccount(a)
  \/ \E a \in Addrs : removeProtectedAccount(a)
  \/ \E a \in Addrs : checkAccount(a)
  \/ findAllReclaimable
  \/ FindLoop
  \/ CheckReadError
  \/ CheckInfo
  \/ CheckToken
  \/ \E d \in AllDets(registry), opt \in DryRunOpts : reclaimTokenAccount(d, opt)
  \/ ReclaimReadError
  \/ ReclaimRead1
  \/ ReclaimRead2
  \/ ReclaimSubmit

SpecAll == InitAll /\ [][NextAll]_vars

(* ------------------------------- claims ------------------------------- *)
\* C1: checkAccount never returns safe = true while the account exists on
\* the ledger with a token balance above zero.
C1_NoSafeWithBalance ==
  (chk.state = "returned" /\ ~chk.result.null /\ chk.result.safe)
    => ~(chk.live.exists /\ chk.live.amount > 0)

C1_Witness ==
  /\ chk.state = "returned" /\ chk.row.tracked /\ ~chk.wasProtected
  /\ chk.row.accountType \in TokenTypes
  /\ chk.live.exists /\ chk.live.amount > 0
  /\ ~chk.result.null

\* C2: a close transaction is submitted only when the detection is safe, the
\* address was not on the whitelist at the call, and both live reads of the
\* call found a token balance of zero.
C2_NoSubmitWhenGated ==
  rcl.submits > 0 =>
    /\ rcl.det.safe
    /\ ~rcl.wasProtected
    /\ rcl.tokenData.found /\ rcl.tokenData.amount = 0
    /\ rcl.tokenData2.found /\ rcl.tokenData2.amount = 0

C2_Witness ==
  /\ rcl.state = "returned" /\ rcl.submits = 0 /\ ~rcl.dryRun
  /\ rcl.tokenData.found /\ rcl.tokenData.amount = 0
  /\ rcl.tokenData2.found /\ rcl.tokenData2.amount > 0

\* C3: a close transaction is submitted only when the owner field read from
\* the ledger during the call is the operator's signing key.
C3_SubmitOnlyIfOwner ==
  rcl.submits > 0 =>
    /\ rcl.tokenData.owner = OperatorKey
    /\ rcl.tokenData2.owner = OperatorKey

C3_Witness ==
  /\ rcl.state = "returned" /\ ~rcl.dryRun /\ rcl.submits = 0
  /\ rcl.tokenData.found /\ rcl.tokenData.amount = 0 /\ rcl.tokenData.owner = OtherKey
  /\ rcl.result.error = "not_owner"

\* C4: a reclaimTokenAccount call with dry-run in effect changes no tracked
\* account's status and appends no history entry.
C4_DryRunNoMutation ==
  (rcl.state = "returned" /\ rcl.dryRun) =>
    /\ \A a \in Addrs :
         getTrackedAccount(registry, a).status = getTrackedAccount(rcl.regBefore, a).status
    /\ history = rcl.histBefore

\* C5: a result with reason inactive is never safe, and a safe result has
\* reason closed or zero_balance.
C5_InactiveNeverSafe ==
  (chk.state = "returned" /\ ~chk.result.null) =>
    /\ chk.result.reason = "inactive" => ~chk.result.safe
    /\ chk.result.safe => chk.result.reason \in {"closed", "zero_balance"}

C5_Witness ==
  chk.state = "returned" /\ ~chk.result.null /\ chk.result.reason = "inactive"

\* C6: for a whitelisted address checkAccount returns null without a ledger
\* read and leaves the tracked row as it was.
C6_ProtectedSkipped ==
  (chk.state # "none" /\ chk.wasProtected) =>
    /\ chk.state = "returned"
    /\ chk.result.null
    /\ chk.reads = 0
    /\ getTrackedAccount(registry, chk.pubkey) = chk.before

C6_Witness ==
  /\ chk.state = "returned" /\ chk.wasProtected /\ chk.before.tracked
  /\ chk.before.accountType \in TokenTypes
  /\ chain[chk.pubkey].token /\ chain[chk.pubkey].amount = 0

\* C7: after a confirmed close the account's status is reclaimed and exactly
\* one history entry was appended, with the lamports read during the call,
\* the returned signature and the detection's reason.
C7_SuccessRecorded ==
  (rcl.state = "returned" /\ rcl.submits > 0 /\ rcl.result.success) =>
    /\ getTrackedAccount(registry, rcl.det.pubkey).status = "reclaimed"
    /\ rcl.result.txSignature \notin {"", "DRY_RUN"}
    /\ history = Append(rcl.histBefore,
                        [account |-> rcl.det.pubkey, amount |-> rcl.tokenData.lamports,
                         tx |-> rcl.result.txSignature, reason |-> rcl.det.reason])

C7_Witness ==
  /\ rcl.state = "returned" /\ rcl.submits > 0 /\ rcl.result.success
  /\ getTrackedAccount(rcl.regBefore, rcl.det.pubkey).rentLamports # rcl.tokenData.lamports

\* C8: a reclaimTokenAccount call that returns success = false leaves every
\* registry row and the history as they were before the call.
C8_FailureLeavesStore ==
  (rcl.state = "returned" /\ ~rcl.result.success) =>
    /\ registry = rcl.regBefore
    /\ history = rcl.histBefore

C8_Witness ==
  rcl.state = "returned" /\ ~rcl.result.success /\ rcl.submits > 0

\* C9: when the live re-fetch finds no token account, the call returns
\* success with amount 0 and the 'already closed' note, the status becomes
\* reclaimed, nothing is submitted and no history entry is appended.
C9_AlreadyClosed ==
  (rcl.state = "returned" /\ rcl.reads > 0 /\ ~rcl.tokenData.found) =>
    /\ rcl.result = Success(rcl.det.pubkey, 0, "", "already_closed")
    /\ getTrackedAccount(registry, rcl.det.pubkey).status = "reclaimed"
    /\ rcl.submits = 0
    /\ history = rcl.histBefore

C9_Witness ==
  /\ rcl.state = "returned" /\ rcl.reads > 0 /\ ~rcl.tokenData.found
  /\ ~chain[rcl.det.pubkey].exists
  /\ getTrackedAccount(rcl.regBefore, rcl.det.pubkey).status = "reclaimable"

\* C10: batchReclaim calls reclaimTokenAccount on the first min(m, n)
\* detections in input order (all n when maxAccounts is unset) and returns one
\* result per processed detection in that order; an address that occurs only
\* beyond the prefix keeps its registry row and gets no history entry.
C10_BatchPrefix ==
  LET n == Len(bat.dets)
      k == IF bat.maxAccounts = NoMax \/ bat.maxAccounts > n THEN n ELSE bat.maxAccounts
      inPrefix == {bat.dets[j].pubkey : j \in 1..k}
  IN /\ bat.state # "none" =>
          /\ Len(bat.calls) <= k
          /\ bat.calls = SubSeq(bat.dets, 1, Len(bat.calls))
          /\ rcl.state # "none" => rcl.det = bat.calls[Len(bat.calls)]
          /\ \A a \in Addrs \ inPrefix :
               /\ getTrackedAccount(registry, a) = getTrackedAccount(bat.regBefore, a)
               /\ \A j \in 1..Len(history) : j > Len(bat.histBefore) => history[j].account # a
     /\ bat.state = "returned" =>
          /\ bat.calls = SubSeq(bat.dets, 1, k)
          /\ Len(bat.results) = k
          /\ \A j \in 1..k : bat.results[j].accountPubkey = bat.dets[j].pubkey

C10_Witness ==
  /\ bat.state = "returned"
  /\ Len(bat.dets) = 3 /\ bat.maxAccounts = 2
  /\ bat.dets[1].pubkey = bat.dets[2].pubkey /\ bat.dets[3].pubkey # bat.dets[1].pubkey
  /\ bat.results[1].success /\ bat.results[1].txSignature \notin {"", "DRY_RUN"}
  /\ LedgerAccepts(chain[bat.dets[3].pubkey])
  /\ getTrackedAccount(registry, bat.dets[3].pubkey).status = "reclaimable"

\* C11: a batchReclaim call that has ended has returned, with one result for
\* every detection of the processed prefix, whatever happened to any of them.
C11_BatchNeverAborts ==
  bat.state \notin {"none", "running"} =>
    /\ bat.state = "returned"
    /\ Len(bat.results) = Len(bat.toProcess)

\* C12: the registry holds at most one row per address; trackAccount on an
\* address that is already tracked leaves exactly one row for it and changes
\* nothing in the registry.
C12_OneRowPerAddress ==
  /\ \A a \in Addrs : Cardinality(RowsOf(registry, a)) <= 1
  /\ (scn.op = "track" /\ scn.state = "returned" /\ scn.existing) =>
       /\ Cardinality(RowsOf(registry, scn.pubkey)) = 1
       /\ registry = scn.regBefore

C12_Witness ==
  /\ scn.op = "track" /\ scn.state = "returned" /\ scn.existing
  /\ Len(registry) = 2
  /\ getTrackedAccount(registry, scn.pubkey).status = "reclaimable"

\* C13: when a scanOperatorAccounts call first registered an address with a
\* token balance above 0 and the next scanOperatorAccounts call lists it with
\* balance 0, the registry afterwards holds a single row for the address and
\* its status is reclaimable.
C13_UpsertRoundTrip ==
  (scn.op = "owned" /\ scn.state = "returned") =>
    \A j \in 1..Len(scn.list) :
      LET a == scn.list[j].pubkey
      IN (scn.list[j].amount = 0 /\ a \in scn.prevNew) =>
           /\ Cardinality(RowsOf(registry, a)) = 1
           /\ getTrackedAccount(registry, a).status = "reclaimable"

\* C14: for a tracked address that is not on the whitelist and is not found
\* on the ledger, checkAccount returns closed, safe, with the rent the row
\* recorded before the call, and the row then has status reclaimed and rent 0.
C14_ClosedResult ==
  (chk.state = "returned" /\ chk.before.tracked /\ ~chk.wasProtected
     /\ chk.reads > 0 /\ ~chk.info.found) =>
    /\ ~chk.result.null
    /\ chk.result.reason = "closed" /\ chk.result.safe
    /\ chk.result.reclaimableLamports = chk.before.rentLamports
    /\ getTrackedAccount(registry, chk.pubkey).status = "reclaimed"
    /\ getTrackedAccount(registry, chk.pubkey).rentLamports = 0

C14_Witness ==
  /\ chk.state = "returned" /\ chk.before.tracked /\ ~chk.wasProtected
  /\ chk.reads > 0 /\ ~chk.info.found
  /\ chk.before.rentLamports = MaxLamports
  /\ chk.before.status = "active"

\* C15: for a tracked token account or associated token account that is not
\* on the whitelist and is on the ledger with a token balance of 0,
\* checkAccount returns zero_balance, safe, with the live lamports, and the
\* row then has status reclaimable and the live lamports as its rent.
C15_ZeroBalanceResult ==
  (chk.state = "returned" /\ chk.before.tracked /\ ~chk.wasProtected
     /\ chk.before.accountType \in TokenTypes /\ chk.reads = 2
     /\ chk.live.exists /\ chk.live.token /\ chk.live.amount = 0) =>
    /\ ~chk.result.null
    /\ chk.result.reason = "zero_balance" /\ chk.result.safe
    /\ chk.result.reclaimableLamports = chk.live.lamports
    /\ getTrackedAccount(registry, chk.pubkey).status = "reclaimable"
    /\ getTrackedAccount(registry, chk.pubkey).rentLamports = chk.live.lamports

C15_Witness ==
  /\ chk.state = "returned" /\ chk.before.tracked /\ ~chk.wasProtected
  /\ chk.before.accountType = "ata" /\ chk.reads = 2
  /\ chk.live.exists /\ chk.live.token /\ chk.live.amount = 0
  /\ chk.before.rentLamports # chk.live.lamports
  /\ chk.before.status = "active"

\* C19: once the operator's accounts are listed, scanOperatorAccounts goes
\* through the whole list and returns, whatever happens to one account.
C19_ScanNeverAborts ==
  (scn.op = "owned" /\ scn.listed /\ scn.state # "running") =>
    /\ scn.state = "returned"
    /\ scn.i = Len(scn.list)

C16_OneDefaultOperator ==
  Cardinality({i \in 1..Len(operators.rows) : operators.rows[i].is_default}) <= 1

C16_Witness ==
  /\ operators.op = "setDefault"
  /\ \E i \in 1..Len(operators.before) :
       operators.before[i].is_default /\ operators.before[i].id # operators.arg
  /\ \E i \in 1..Len(operators.rows) :
       operators.rows[i].is_default /\ operators.rows[i].id = operators.arg

\* C17: every step leaves the earlier history entries in place: the history
\* before the step is a prefix of the history after it.
C17_HistoryAppendOnly ==
  [][/\ Len(history) <= Len(history')
     /\ SubSeq(history', 1, Len(history)) = history]_vars

C17_Witness ==
  /\ Len(history) = 2
  /\ history[1].account # history[2].account
  /\ scn.op = "owned" /\ scn.state = "returned"

\* C18: findAllReclaimable goes through every tracked account, calls
\* checkAccount on exactly those whose status is neither reclaimed nor
\* protected, goes on after an exception, and returns the non-null results of
\* the calls.
C18_FindAllReclaimable ==
  fnd.state # "none" =>
    LET n == Len(fnd.accounts)
        m == IF pc \in {"chk_info", "chk_token"} THEN fnd.i + 1 ELSE fnd.i
        eligible == SelectSeq(SubSeq(fnd.accounts, 1, m), LAMBDA r : ~Skipped(r))
    IN /\ {fnd.accounts[j].pubkey : j \in 1..n} = {registry[j].pubkey : j \in 1..Len(registry)}
       /\ fnd.calls = [j \in 1..Len(eligible) |-> eligible[j].pubkey]
       /\ \A j \in (m + 1)..n :
            getTrackedAccount(registry, fnd.accounts[j].pubkey).status = fnd.accounts[j].status
       /\ fnd.state = "returned" =>
            /\ m = n
            /\ Len(fnd.returned) + fnd.caught = Len(fnd.calls)
            /\ fnd.results = SelectSeq(fnd.returned, LAMBDA d : ~d.null)

C18_Witness ==
  /\ fnd.state = "returned"
  /\ Len(fnd.accounts) = 2 /\ Len(fnd.calls) = 2
  /\ fnd.caught = 1 /\ Len(fnd.results) = 1
  /\ chk.state = "returned" /\ chk.pubkey = fnd.calls[2]

\* C21: within one reclaimTokenAccount call the close transaction is sent at
\* most once; a call that sent it has returned, either the success of the
\* confirmed close or, when the send or the confirmation failed, the failure
\* result of the catch block, and nothing is sent after that.
C21_SubmitAtMostOnce ==
  /\ rcl.submits <= 1
  /\ pc = "rcl_submit" => rcl.submits = 0
  /\ rcl.submits = 1 =>
       /\ rcl.state = "returned"
       /\ \/ rcl.result = Failure(rcl.det.pubkey, "send_failed")
          \/ /\ rcl.result.success
             /\ rcl.result.txSignature \notin {"", "DRY_RUN"}
             /\ Len(history) = Len(rcl.histBefore) + 1

C21_Witness ==
  /\ rcl.state = "returned" /\ rcl.submits = 1
  /\ rcl.result = Failure(rcl.det.pubkey, "send_failed")
  /\ ~chain[rcl.det.pubkey].exists

C24_AuthorityBeforeDryRun ==
  (/\ rcl.state = "returned"
   /\ rcl.tokenData.found /\ ~HasBalance(rcl.tokenData)
   /\ ~OwnedByOperator(rcl.tokenData))
    => rcl.result = Failure(rcl.det.pubkey, "not_owner")

\* C25: batchReclaim waits after a processed detection only if its result is
\* a success and dry-run is not in effect for the batch, be it through the
\* option or through the configured default.
C25_DelayOnlyAfterLiveClose ==
  \A j \in 1..Len(bat.delays) :
    bat.delays[j] =>
      /\ bat.results[j].success
      /\ ~ResolveDryRun(bat.dryRunOpt, cfgDryRun)

\* C26: dry-run is in effect for a reclaimTokenAccount call exactly when the
\* option is true, or the option is not given and the configured default is
\* true; such a call sends no transaction, and when the live read finds an
\* empty token account of the operator it returns success with the lamports
\* read and the marker DRY_RUN. No other call returns that marker.
C26_DryRunResolution ==
  rcl.state # "none" =>
    /\ rcl.dryRun <=> (rcl.dryRunOpt = "true" \/ (rcl.dryRunOpt = "unset" /\ cfgDryRun))
    /\ rcl.dryRun => rcl.submits = 0 /\ pc \notin {"rcl_read2", "rcl_submit"}
    /\ (/\ rcl.dryRun /\ rcl.state = "returned"
        /\ rcl.tokenData.found /\ ~HasBalance(rcl.tokenData) /\ OwnedByOperator(rcl.tokenData))
         => rcl.result = Success(rcl.det.pubkey, rcl.tokenData.lamports, "DRY_RUN", "none")
    /\ rcl.result.txSignature = "DRY_RUN" => rcl.dryRun

\* the option is not given and the configured default decides
C26_Witness ==
  /\ rcl.state = "returned" /\ rcl.dryRunOpt = "unset" /\ cfgDryRun
  /\ OwnedByOperator(rcl.tokenData)
  /\ rcl.result = Success(rcl.det.pubkey, rentExempt, "DRY_RUN", "none")
  /\ LedgerAccepts(chain[rcl.det.pubkey])

\* C27 as stated: checkAccount returns reason inactive only for a row with a
\* recorded last activity whose elapsed time strictly exceeds the threshold of
\* MinInactiveDays days.
C27_InactiveStrictlyOver ==
  (chk.state = "returned" /\ chk.result.reason = "inactive") =>
    /\ chk.row.lastActivityAt # NoActivity
    /\ chk.row.lastActivityAt > MinInactiveDays * MsPerDay

\* C27, amended: checkAccount returns reason inactive only for a row with a
\* recorded last activity and at least MinInactiveDays whole days elapsed
\* since; a found account that is not reported zero_balance and has reached
\* the threshold, the threshold itself included, is reported inactive.
C27_InactiveFromThreshold ==
  chk.state = "returned" =>
    /\ chk.result.reason = "inactive" =>
         /\ chk.row.lastActivityAt # NoActivity
         /\ daysSince(chk.row.lastActivityAt) >= MinInactiveDays
    /\ (/\ chk.info.found /\ chk.result.reason # "zero_balance"
        /\ chk.row.lastActivityAt # NoActivity
        /\ chk.row.lastActivityAt >= MinInactiveDays * MsPerDay)
         => chk.result.reason = "inactive"

\* the elapsed time is the threshold to the millisecond
C27_Witness ==
  /\ chk.state = "returned" /\ chk.result.reason = "inactive"
  /\ chk.row.lastActivityAt = MinInactiveDays * MsPerDay

\* C28: when checkAccount finds the account of a tracked address that is not
\* on the whitelist, and neither the zero-balance gate nor the inactivity gate
\* matches, it returns null and leaves the row with status active and the
\* lamports it read.
C28_ActiveBranch ==
  (/\ chk.state = "returned" /\ chk.row.tracked /\ ~chk.wasProtected
   /\ chk.info.found
   /\ chk.row.accountType \in TokenTypes => ~isZeroBalance(getTokenAccountData(chk.live))
   /\ ~isInactive(chk.row))
    => /\ chk.result.null
       /\ getTrackedAccount(registry, chk.pubkey).status = "active"
       /\ getTrackedAccount(registry, chk.pubkey).rentLamports = chk.info.lamports

\* a row marked reclaimable whose account holds tokens again
C28_Witness ==
  /\ chk.state = "returned" /\ chk.result.null
  /\ chk.before.status = "reclaimable" /\ chk.before.rentLamports # chk.info.lamports
  /\ chk.live.token /\ chk.live.amount > 0
  /\ getTrackedAccount(registry, chk.pubkey).status = "active"

\* C29: a call of the retry helper invokes the function at most maxRetries
\* times; it returns the value of the first attempt that resolves and makes
\* no attempt after it; after the k-th rejected attempt (k from 0) it sleeps
\* baseDelayMs * 2^k, except after the last one; after maxRetries rejections
\* it throws the last error; and a call that has started ends, given that
\* every attempt settles and every timer fires.
C29_RetryBounded ==
  /\ [](LET m == rty.maxRetries
            nerr == Len(rty.errors)
            sleeps == IF nerr < m - 1 THEN nerr ELSE IF m = 0 THEN 0 ELSE m - 1
        IN /\ rty.calls <= m
           /\ rty.calls = nerr + (IF rty.state = "returned" THEN 1 ELSE 0)
           /\ rty.state = "returned" => rty.result \in Values
           /\ Len(rty.delays) = sleeps
           /\ \A k \in 1..Len(rty.delays) : rty.delays[k] = rty.baseDelayMs * 2^(k - 1)
           /\ rty.state = "sleeping" => nerr < m
           /\ rty.state = "threw" =>
                /\ nerr = m
                /\ rty.thrown = IF m = 0 THEN Undefined ELSE rty.errors[m])
  /\ (rty.state \in {"calling", "sleeping"}) ~> (rty.state \in {"returned", "threw"})

\* the defaults: three rejected attempts, sleeps of 1000 and 2000 ms, and the
\* third error is the one thrown
C29_Witness ==
  /\ rty.state = "threw"
  /\ rty.maxRetries = DefaultMaxRetries /\ rty.baseDelayMs = DefaultBaseDelayMs
  /\ rty.calls = 3 /\ rty.delays = <<1000, 2000>>
  /\ rty.errors[2] # rty.errors[3] /\ rty.thrown = rty.errors[3]

\* C30: what checkAccount returns for a tracked address that is not on the
\* whitelist (null, or the reason and the safe flag) is a function of the
\* row's account type, its recorded last activity and the ledger state the
\* call read, and of nothing else: two registries that differ only in the
\* row's status give the same outcome on the same ledger state. A call whose
\* two reads saw the account once present and once absent is left aside.
C30_StatusNeverRead ==
  LET outcome(d) == <<d.null, d.reason, d.safe>>
      byLedger(t, la, c) ==
        IF ~c.exists THEN <<FALSE, "closed", TRUE>>
        ELSE IF t \in TokenTypes /\ c.token /\ c.amount = 0 THEN <<FALSE, "zero_balance", TRUE>>
        ELSE IF la # NoActivity /\ la \div MsPerDay >= MinInactiveDays
          THEN <<FALSE, "inactive", FALSE>>
          ELSE <<TRUE, "none", FALSE>>
  IN (/\ chk.state = "returned" /\ chk.row.tracked /\ ~chk.wasProtected
      /\ chk.reads >= 1 => chk.info.found = chk.live.exists)
       => outcome(chk.result) = byLedger(chk.row.accountType, chk.row.lastActivityAt, chk.live)

\* a row marked reclaimed is checked like any other: its address holds an
\* empty token account again and the call reports it
C30_Witness ==
  /\ chk.state = "returned" /\ chk.before.status = "reclaimed"
  /\ chk.result.reason = "zero_balance" /\ chk.result.safe

\* C31: with the statements of two processes that run setDefaultOperator or
\* addOperator with the default option interleaved, no two rows of the
\* operators table hold the default flag.
C31_OneDefaultConcurrent ==
  \A i, j \in 1..Len(operators.rows) :
    (operators.rows[i].is_default /\ operators.rows[j].is_default) => i = j

\* C32: a reclaimTokenAccount call sends the close only after two ledger
\* reads of its own that both found the token account with balance 0, the
\* second one with the operator key as owner; when the second read finds a
\* balance above 0, nothing is sent and the call returns a failure.
C32_TwoReadsBeforeSubmit ==
  /\ (pc = "rcl_submit" \/ rcl.submits >= 1) =>
       /\ rcl.reads = 2
       /\ rcl.tokenData.found /\ rcl.tokenData.amount = 0
       /\ rcl.tokenData2.found /\ rcl.tokenData2.amount = 0
       /\ rcl.tokenData2.owner = OperatorKey
  /\ (rcl.tokenData2.found /\ rcl.tokenData2.amount > 0) =>
       /\ rcl.state = "returned" /\ rcl.submits = 0
       /\ rcl.result = Failure(rcl.det.pubkey, "close_nonzero_balance")

\* tokens arrive between the two reads
C32_Witness ==
  /\ rcl.state = "returned" /\ rcl.reads = 2
  /\ rcl.tokenData.found /\ rcl.tokenData.amount = 0
  /\ rcl.tokenData2.found /\ rcl.tokenData2.amount > 0
  /\ ~rcl.result.success /\ chain[rcl.det.pubkey].exists

\* C33: every tracked address that has a row in the whitelist has registry
\* status protected, in whatever order the operations were applied.
C33_WhitelistMeansProtected ==
  \A a \in whitelist :
    getTrackedAccount(registry, a).tracked => getTrackedAccount(registry, a).status = "protected"

\* C34: no step of a detector or reclaimer call in progress takes a row out
\* of status reclaimed, not even when an account exists again at the address.
C34_ReclaimedAbsorbing ==
  [][\A a \in Addrs :
       (pc # "idle" /\ getTrackedAccount(registry, a).status = "reclaimed")
         => getTrackedAccount(registry', a).status = "reclaimed"]_vars

C36_NoActivityRecorded ==
  /\ \A j \in 1..Len(registry) : registry[j].lastActivityAt = NoActivity
  /\ chk.result.reason # "inactive"
  /\ \A j \in 1..Len(fnd.results) : fnd.results[j].reason # "inactive"

\* checkAccount came to the inactivity gate: the account holds tokens, the
\* row has no last activity, the call returned null
C36_Witness ==
  /\ chk.state = "returned" /\ chk.result.null /\ chk.reads = 2
  /\ chk.live.token /\ chk.live.amount > 0
  /\ chk.row.tracked /\ chk.row.lastActivityAt = NoActivity

\* C37: an addOperator call that adds no row, because the name is taken,
\* leaves the operators table as it was.
C37_AddOperatorAllOrNothing ==
  (operators.op = "add" /\ Len(operators.rows) = Len(operators.before))
    => operators.rows = operators.before

(* ------------------- whitelist commands, with a log -------------------- *)
\* the status column of the row of a, "none" when the registry has no row
StatusOf(reg, a) ==
  IF getTrackedAccount(reg, a).tracked THEN getTrackedAccount(reg, a).status ELSE "none"

\* addProtectedAccount: INSERT OR REPLACE into the whitelist, then the row's
\* status is set to 'protected'
LoggedAddProtected(a) ==
  /\ pc = "idle"
  /\ whitelist' = whitelist \cup {a}
  /\ registry' = updateAccountStatus(registry, a, "protected")
  /\ wlog' = [op |-> "add", pubkey |-> a, before |-> StatusOf(registry, a),
              undoes |-> FALSE, original |-> "none"]
  /\ UNCHANGED <<history, chain, rentExempt, cfgDryRun, operators, rty, procs, pc,
                 chk, rcl, bat, scn, fnd>>

\* removeProtectedAccount: DELETE from the whitelist, then the row's status is
\* set to 'active'
LoggedRemoveProtected(a) ==
  /\ pc = "idle"
  /\ whitelist' = whitelist \ {a}
  /\ registry' = updateAccountStatus(registry, a, "active")
  /\ LET undoes == wlog.op = "add" /\ wlog.pubkey = a
     IN wlog' = [op |-> "remove", pubkey |-> a, before |-> StatusOf(registry, a),
                 undoes |-> undoes,
                 original |-> IF undoes THEN wlog.before ELSE "none"]
  /\ UNCHANGED <<history, chain, rentExempt, cfgDryRun, operators, rty, procs, pc,
                 chk, rcl, bat, scn, fnd>>

\* the rows of a1 that the scanner, the detector and the reclaimer leave
\* behind: active, reclaimable, and reclaimed once the account is gone
ProtectRows ==
  {Row("a1", t, r, s, NoActivity) :
     t \in AccountTypes, r \in 0..1, s \in {"active", "reclaimable", "reclaimed"}}

InitProtect ==
  /\ registry \in {<<row>> : row \in ProtectRows}
  /\ whitelist = {}
  /\ history = <<>>
  /\ rentExempt = 1
  /\ chain = [a \in Addrs |-> Absent]
  /\ cfgDryRun = TRUE
  /\ pc = "idle"
  /\ chk = NoChk /\ rcl = NoRcl /\ bat = NoBat /\ scn = NoScn /\ fnd = NoFnd
  /\ operators = NoOperators
  /\ rty = NoRty
  /\ procs = NoProcs
  /\ wlog = NoWl

NextProtect ==
  \/ \E a \in Addrs : LoggedAddProtected(a)
  \/ \E a \in Addrs : LoggedRemoveProtected(a)

SpecProtect == InitProtect /\ [][NextProtect]_vars

\* C38: removeProtectedAccount right after addProtectedAccount of the same
\* tracked address leaves the row with the status it had before the two
\* commands, and the address off the whitelist.
C38_ProtectRoundTrip ==
  (wlog.undoes /\ getTrackedAccount(registry, wlog.pubkey).tracked)
    => /\ StatusOf(registry, wlog.pubkey) = wlog.original
       /\ wlog.pubkey \notin whitelist

====
